---- MODULE Spec2Model ----
(***************************************************************************)
(* Model of src/intelligence-python/main.py (SignalGraph intelligence      *)
(* skeleton): file discovery, preview extraction, record construction,     *)
(* aggregation and the command line driver.                                *)
(*                                                                         *)
(* Strings are sequences of one-character strings.  A pathlib.Path is      *)
(* represented by the string str() gives for it, so Path(s) is the         *)
(* normalisation PathOf(s).  The file system is a function from            *)
(* normalised paths to nodes; a path outside its domain does not exist.    *)
(* A node's kind is the kind stat() reports (Path.exists, Path.is_file     *)
(* and Path.iterdir are stat based).                                       *)
(*                                                                         *)
(* Environment assumptions: the file system is not changed by anybody      *)
(* else during a run, the current directory exists and is a directory,     *)
(* every directory can be enumerated, and the --output target, when        *)
(* given, is writable.                                                     *)
(***************************************************************************)
EXTENDS Integers, Sequences, FiniteSets, TLC

VARIABLES fs, cmdline, args, pc, files, idx, results, stdout, stderr,
          written, exitcode, call, ret

vars == <<fs, cmdline, args, pc, files, idx, results, stdout, stderr,
          written, exitcode, call, ret>>

\* ------------------------------------------------------------------ bounds
\* Longest file content enumerated for the preview_file specification.
MaxLen == 3
\* Largest number of entries in the data directory.
MaxEntries == 3
\* Longest path sequence handed to process_files directly.
MaxPaths == 2
\* Length of the long file name (NAME_MAX allows up to 255).
LongLen == 200

\* --------------------------------------------------------------- constants
\* preview_file(p, length=200)
DefaultLength == 200
\* ArgumentParser.error() ends the process with status 2
UsageStatus == 2
\* the interpreter ends with status 1 on an uncaught exception
UncaughtStatus == 1

not_found_status_one == UncaughtStatus

\* raise SystemExit(2)
NotFoundStatus == 2
\* normal end of main()
SuccessStatus == 0

\* ----------------------------------------------------------------- strings
Min(a, b) == IF a < b THEN a ELSE b
Max(a, b) == IF a > b THEN a ELSE b

ErrPrefix == <<"<", "e", "r", "r", "o", "r", " ", "r", "e", "a", "d", "i", "n", "g", " ", "f", "i", "l", "e", ":", " ">>
ErrSuffix == <<">">>
Marker == <<"e", "r", "r", "o", "r", " ", "r", "e", "a", "d", "i", "n", "g", " ", "f", "i", "l", "e">>
MsgEACCES == <<"[", "E", "r", "r", "n", "o", " ", "1", "3", "]", " ", "P", "e", "r", "m", "i", "s", "s", "i", "o", "n", " ", "d", "e", "n", "i", "e", "d", ":", " ">>
MsgEISDIR == <<"[", "E", "r", "r", "n", "o", " ", "2", "1", "]", " ", "I", "s", " ", "a", " ", "d", "i", "r", "e", "c", "t", "o", "r", "y", ":", " ">>
MsgENXIO == <<"[", "E", "r", "r", "n", "o", " ", "6", "]", " ", "N", "o", " ", "s", "u", "c", "h", " ", "d", "e", "v", "i", "c", "e", " ", "o", "r", " ", "a", "d", "d", "r", "e", "s", "s", ":", " ">>
MsgENOENT == <<"[", "E", "r", "r", "n", "o", " ", "2", "]", " ", "N", "o", " ", "s", "u", "c", "h", " ", "f", "i", "l", "e", " ", "o", "r", " ", "d", "i", "r", "e", "c", "t", "o", "r", "y", ":", " ">>
MsgDecode == <<"'", "u", "t", "f", "-", "8", "'", " ", "c", "o", "d", "e", "c", " ", "c", "a", "n", "'", "t", " ", "d", "e", "c", "o", "d", "e", " ", "b", "y", "t", "e", " ", "0", "x", "f", "f", " ", "i", "n", " ", "p", "o", "s", "i", "t", "i", "o", "n", " ", "0", ":", " ", "i", "n", "v", "a", "l", "i", "d", " ", "s", "t", "a", "r", "t", " ", "b", "y", "t", "e">>

\* s occurs in t as a contiguous substring (Python: s in t).
Contains(t, s) ==
    \E i \in 0..(Len(t) - Len(s)) : SubSeq(t, i + 1, i + Len(s)) = s

\* Unicode code point of a character (ord), for the characters of file names.
CodePoint(c) ==
    CASE c = "." -> 46
      [] c = "/" -> 47
      [] c = "B" -> 66
      [] c = "a" -> 97
      [] c = "b" -> 98
      [] c = "d" -> 100
      [] OTHER -> 120

\* Python's str < str: lexicographic by code point, decided at the first
\* index where the two differ; a proper prefix is less.
StrLess(s, t) ==
    LET n == Min(Len(s), Len(t))
        diff == {i \in 1..n : s[i] # t[i]}
    IN  IF diff = {} THEN Len(s) < Len(t)
        ELSE LET k == CHOOSE i \in diff : \A j \in diff : i <= j
             IN  CodePoint(s[k]) < CodePoint(t[k])

\* ------------------------------------------------------------------- paths
\* The non-empty components of s.split("/"), in order: a component starts
\* after a "/" (or at the beginning) and runs to the next "/" (or the end).
Split(s) ==
    LET starts == {i \in 1..Len(s) : s[i] # "/" /\ (i = 1 \/ s[i - 1] = "/")}
        stop(i) == CHOOSE j \in i..Len(s) :
                      /\ s[j] # "/"
                      /\ j = Len(s) \/ s[j + 1] = "/"
                      /\ \A k \in i..j : s[k] # "/"
        nth(k) == CHOOSE i \in starts :
                      Cardinality({j \in starts : j < i}) = k - 1
    IN  [k \in 1..Cardinality(starts) |-> SubSeq(s, nth(k), stop(nth(k)))]

\* The components pathlib keeps: empty and "." components are dropped.
Parts(s) == SelectSeq(Split(s), LAMBDA c : c # <<".">>)

RECURSIVE Join(_)
Join(parts) ==
    IF parts = <<>> THEN <<>>
    ELSE IF Len(parts) = 1 THEN parts[1]
    ELSE parts[1] \o <<"/">> \o Join(Tail(parts))

\* str(Path(s)): Path("") is ".", "data/" is "data", "./data//B" is "data/B".
PathOf(s) ==
    LET abs == Len(s) > 0 /\ s[1] = "/"
        body == Join(Parts(s))
    IN  IF abs THEN <<"/">> \o body
        ELSE IF body = <<>> THEN <<".">>
        ELSE body

\* p / name
PathJoin(p, name) == PathOf(p \o <<"/">> \o name)

\* p.name, the final component
Name(p) == LET ps == Parts(p) IN IF ps = <<>> THEN <<>> ELSE ps[Len(ps)]

\* p.parent
Parent(p) ==
    LET ps == Parts(p)
    IN  IF ps = <<>> THEN PathOf(p)
        ELSE PathOf((IF Len(p) > 0 /\ p[1] = "/" THEN <<"/">> ELSE <<>>)
                    \o Join(SubSeq(ps, 1, Len(ps) - 1)))

\* ------------------------------------------------------------- file system
DirNode == [kind |-> "dir", read |-> "na", text |-> <<>>]
SocketNode == [kind |-> "socket", read |-> "na", text |-> <<>>]
FileNode(read, text) == [kind |-> "file", read |-> read, text |-> text]

\* Path.exists()
exists(f, p) == p \in DOMAIN f

\* Path.is_file()
is_file(f, p) == p \in DOMAIN f /\ f[p].kind = "file"

\* Path.is_dir()
is_dir(f, p) == p \in DOMAIN f /\ f[p].kind = "dir"

\* The entries Path.iterdir() yields, as a set: the order is the file
\* system's and is chosen by the caller among Orders(iterdir(f, p)).
iterdir(f, p) == {q \in DOMAIN f : q # p /\ Parent(q) = p}

Orders(S) ==
    {o \in [1..Cardinality(S) -> S] :
        \A i, j \in 1..Cardinality(S) : i # j => o[i] # o[j]}

\* Path.read_text(encoding="utf-8"): the decoded text or the exception.
read_text(f, p) ==
    IF ~exists(f, p) THEN [exc |-> "FileNotFoundError", text |-> <<>>]
    ELSE IF f[p].kind = "dir" THEN [exc |-> "IsADirectoryError", text |-> <<>>]
    ELSE IF f[p].kind = "socket" THEN [exc |-> "OSError", text |-> <<>>]
    ELSE IF f[p].read = "denied" THEN [exc |-> "PermissionError", text |-> <<>>]
    ELSE IF f[p].read = "undecodable"
         THEN [exc |-> "UnicodeDecodeError", text |-> <<>>]
    ELSE [exc |-> "none", text |-> f[p].text]

\* repr() of a path string without quotes or escapes in it
Repr(p) == <<"'">> \o p \o <<"'">>

\* str(e) for the exception read_text raised on p
StrError(exc, p) ==
    CASE exc = "FileNotFoundError" -> MsgENOENT \o Repr(p)
      [] exc = "IsADirectoryError" -> MsgEISDIR \o Repr(p)
      [] exc = "OSError" -> MsgENXIO \o Repr(p)
      [] exc = "PermissionError" -> MsgEACCES \o Repr(p)
      [] OTHER -> MsgDecode

\* ------------------------------------------------------------- list_files
\* sorted() is stable: x goes after every element whose key is not greater.
RECURSIVE Insert(_, _)
Insert(s, x) ==
    IF s = <<>> THEN <<x>>
    ELSE IF StrLess(Name(x), Name(Head(s))) THEN <<x>> \o s
    ELSE <<Head(s)>> \o Insert(Tail(s), x)

RECURSIVE InsertionSort(_)
InsertionSort(s) ==
    IF s = <<>> THEN <<>>
    ELSE Insert(InsertionSort(SubSeq(s, 1, Len(s) - 1)), s[Len(s)])

keep_iteration_order(s) == s

\* sorted(files, key=lambda p: p.name)
sorted_by_name(s) == InsertionSort(s)

list_files_no_exists_check(f, path, order) ==
    IF ~is_dir(f, path)
    THEN [exc |-> IF exists(f, path) THEN "NotADirectoryError"
                  ELSE "FileNotFoundError", val |-> <<>>]
    ELSE [exc |-> "none",
          val |-> sorted_by_name(SelectSeq(order, LAMBDA q : is_file(f, q)))]

list_files_is_dir_check(f, path, order) ==
    IF ~is_dir(f, path) THEN [exc |-> "none", val |-> <<>>]
    ELSE [exc |-> "none",
          val |-> sorted_by_name(SelectSeq(order, LAMBDA q : is_file(f, q)))]

\* list_files(path), order being the order iterdir() yields the entries in.
list_files(f, path, order) ==
    IF ~exists(f, path) THEN [exc |-> "none", val |-> <<>>]
    ELSE IF ~is_dir(f, path) THEN [exc |-> "NotADirectoryError", val |-> <<>>]
    ELSE [exc |-> "none",
          val |-> sorted_by_name(SelectSeq(order, LAMBDA q : is_file(f, q)))]

\* ----------------------------------------------------------- preview_file
slice_one_more(text, n) ==
    SubSeq(text, 1, IF n < 0 THEN Max(Len(text) + n, 0)
                    ELSE Min(n + 1, Len(text)))

\* text[:n]
Slice(text, n) ==
    SubSeq(text, 1, IF n < 0 THEN Max(Len(text) + n, 0) ELSE Min(n, Len(text)))

\* text.replace("\n", " ")
replace_newlines(text) ==
    [i \in 1..Len(text) |-> IF text[i] = "\n" THEN " " ELSE text[i]]

ExceptionSubclasses ==
    {"FileNotFoundError", "IsADirectoryError", "OSError", "PermissionError",
     "UnicodeDecodeError"}

caught_os_error_only(exc) ==
    exc \in {"FileNotFoundError", "IsADirectoryError", "OSError",
             "PermissionError"}

\* except Exception
Caught(exc) == exc \in ExceptionSubclasses

\* preview_file(p, length): the returned string, or the exception that
\* leaves the function.
preview_file(f, p, length) ==
    LET r == read_text(f, p)
    IN  IF r.exc = "none"
        THEN [exc |-> "none", val |-> replace_newlines(Slice(r.text, length))]
        ELSE IF Caught(r.exc)
        THEN [exc |-> "none",
              val |-> ErrPrefix \o StrError(r.exc, p) \o ErrSuffix]
        ELSE [exc |-> r.exc, val |-> <<>>]

\* ----------------------------------------------- process_file, process_files
process_file_name_as_source(f, p) ==
    LET pv == preview_file(f, p, DefaultLength)
    IN  IF pv.exc # "none" THEN [exc |-> pv.exc, val |-> <<>>]
        ELSE [exc |-> "none",
              val |-> [file |-> p, preview |-> pv.val, entities |-> <<>>,
                       relations |-> <<>>, provenance |-> [source |-> Name(p)]]]

\* process_file(p): the FileRecord, or the exception that leaves the function.
process_file(f, p) ==
    LET pv == preview_file(f, p, DefaultLength)
    IN  IF pv.exc # "none" THEN [exc |-> pv.exc, val |-> <<>>]
        ELSE [exc |-> "none",
              val |-> [file |-> p, preview |-> pv.val, entities |-> <<>>,
                       relations |-> <<>>, provenance |-> [source |-> p]]]

append_unless_seen(res, rec) ==
    IF \E i \in 1..Len(res.files) : res.files[i].file = rec.file THEN res
    ELSE [files |-> Append(res.files, rec)]

\* results["files"].append(record)
AppendRecord(res, rec) == [files |-> Append(res.files, rec)]

\* json.dumps(results, indent=2), kept as the document it serialises
json_dumps(res) == [indent |-> 2, value |-> res]

\* ----------------------------------------------------- the inputs enumerated
Dot == <<".">>
DataPath == <<"d", "a", "t", "a">>
LongName == [i \in 1..LongLen |-> "d"]
Names == {<<"a">>, <<"B">>, <<"a", "b">>, LongName}

ShortText == <<"h", "\n", "w">>
LongText == [i \in 1..(DefaultLength + 1) |-> IF i = 2 THEN "\n" ELSE "x"]

EntryNodes ==
    {DirNode, SocketNode, FileNode("ok", ShortText), FileNode("ok", LongText),
     FileNode("denied", <<>>), FileNode("undecodable", <<>>)}

\* The data directory's entries: a node for each of at most MaxEntries names.
DataDirs ==
    UNION {[S -> EntryNodes] : S \in {T \in SUBSET Names : Cardinality(T) <= MaxEntries}}

\* The current directory, holding the data directory (when hasData) with
\* the given entries.
MkFs(hasData, entries) ==
    [p \in {Dot} \cup (IF hasData THEN {DataPath} ELSE {})
           \cup {PathJoin(DataPath, n) : n \in DOMAIN entries}
       |-> IF p = Dot \/ p = DataPath THEN DirNode ELSE entries[Name(p)]]

FileSystems == {MkFs(TRUE, e) : e \in DataDirs} \cup {MkFs(FALSE, <<>>)}

\* An optional command line value: None, or the string given.
None == [set |-> FALSE, val |-> <<>>]
Some(s) == [set |-> TRUE, val |-> s]

ArgDataDefault == <<"d", "a", "t", "a", "/">>
ArgNoDir == <<"n", "o", "d", "i", "r", "/">>
ArgFileA == <<"d", "a", "t", "a", "/", "a">>
ArgFileB == <<".", "/", "d", "a", "t", "a", "/", "/", "B">>
ArgOut == <<"o", "u", "t", ".", "j", "s", "o", "n">>

\* The command lines: one the parser rejects, and the accepted ones with
\* each option absent or given.
Cmdlines ==
    {[usage_error |-> TRUE, file |-> None, data_dir |-> None, output |-> None]}
    \cup [usage_error : {FALSE},
          file : {None, Some(<<>>), Some(ArgFileA), Some(ArgFileB)},
          data_dir : {None, Some(ArgFileA), Some(ArgNoDir)},
          output : {None, Some(ArgOut)}]

NoArgs == [file |-> None, data_dir |-> <<>>, output |-> None]
NoCall == [fn |-> "none", path |-> <<>>, length |-> 0]
EmptyResults == [files |-> <<>>]

\* A line printed: its kind, the path and the count it names, the document.
Line(tag, path, count, doc) ==
    [tag |-> tag, path |-> path, count |-> count, doc |-> doc]

\* ------------------------------------------------------------------- main
Init ==
    /\ fs \in FileSystems
    /\ cmdline \in Cmdlines
    /\ args = NoArgs
    /\ pc = "start"
    /\ files = <<>>
    /\ idx = 1
    /\ results = EmptyResults
    /\ stdout = <<>>
    /\ stderr = <<>>
    /\ written = <<>>
    /\ exitcode = -1
    /\ call = NoCall
    /\ ret = <<>>

\* if args.file: / if args.output:
Truthy(opt) == opt.set /\ opt.val # <<>>

\* An exception nobody catches: traceback on stderr, status 1.
Uncaught(exc) ==
    /\ stderr' = Append(stderr, exc)
    /\ exitcode' = UncaughtStatus
    /\ pc' = "exited"

\* parser.parse_args()
ParseArgs ==
    /\ pc = "start"
    /\ IF cmdline.usage_error
       THEN /\ stderr' = Append(stderr, "usage")
            /\ exitcode' = UsageStatus
            /\ pc' = "exited"
            /\ UNCHANGED args
       ELSE /\ args' = [file |-> cmdline.file,
                        data_dir |-> IF cmdline.data_dir.set
                                     THEN cmdline.data_dir.val
                                     ELSE ArgDataDefault,
                        output |-> cmdline.output]
            /\ pc' = "parsed"
            /\ UNCHANGED <<stderr, exitcode>>
    /\ UNCHANGED <<fs, cmdline, files, idx, results, stdout, written, call, ret>>

\* if args.file: ... results = {"files": [process_file(p)]}
SingleFile ==
    /\ pc = "parsed"
    /\ Truthy(args.file)
    /\ LET p == PathOf(args.file.val)
           r == process_file(fs, p)
       IN  IF ~exists(fs, p)
           THEN /\ stdout' = Append(stdout, Line("file_not_found", p, 0, EmptyResults))
                /\ exitcode' = NotFoundStatus
                /\ pc' = "exited"
                /\ UNCHANGED <<results, stderr>>
           ELSE IF r.exc # "none"
           THEN /\ stdout' = Append(stdout, Line("processing_single", p, 0, EmptyResults))
                /\ Uncaught(r.exc)
                /\ UNCHANGED results
           ELSE /\ stdout' = Append(stdout, Line("processing_single", p, 0, EmptyResults))
                /\ results' = [files |-> <<r.val>>]
                /\ pc' = "dump"
                /\ UNCHANGED <<stderr, exitcode>>
    /\ UNCHANGED <<fs, cmdline, args, files, idx, written, call, ret>>

\* else: files = list_files(data_path); print(discovered ...)
Discover ==
    /\ pc = "parsed"
    /\ ~Truthy(args.file)
    /\ LET data_path == PathOf(args.data_dir)
       IN  \E order \in Orders(iterdir(fs, data_path)) :
             LET r == list_files(fs, data_path, order)
             IN  IF r.exc # "none"
                 THEN /\ Uncaught(r.exc)
                      /\ UNCHANGED <<files, stdout>>
                 ELSE /\ files' = r.val
                      /\ stdout' = Append(stdout,
                             Line("discovered", data_path, Len(r.val), EmptyResults))
                      /\ pc' = "process_files"
                      /\ UNCHANGED <<stderr, exitcode>>
    /\ idx' = 1
    /\ results' = EmptyResults
    /\ UNCHANGED <<fs, cmdline, args, written, call, ret>>

\* for p in paths: results["files"].append(process_file(p))
ProcessFilesStep ==
    /\ pc = "process_files"
    /\ idx <= Len(files)
    /\ LET r == process_file(fs, files[idx])
       IN  IF r.exc # "none"
           THEN /\ Uncaught(r.exc)
                /\ UNCHANGED <<results, idx>>
           ELSE /\ results' = AppendRecord(results, r.val)
                /\ idx' = idx + 1
                /\ UNCHANGED <<pc, stderr, exitcode>>
    /\ UNCHANGED <<fs, cmdline, args, files, stdout, written, call, ret>>

\* return results
ProcessFilesReturn ==
    /\ pc = "process_files"
    /\ idx > Len(files)
    /\ pc' = "dump"
    /\ UNCHANGED <<fs, cmdline, args, files, idx, results, stdout, stderr,
                   written, exitcode, call, ret>>

\* out_json = json.dumps(results, indent=2), then written to --output or
\* printed; main returns and the process ends with status 0.
Dump ==
    /\ pc = "dump"
    /\ LET out_json == json_dumps(results)
       IN  IF Truthy(args.output)
           THEN /\ written' = Append(written,
                       [path |-> PathOf(args.output.val), text |-> out_json])
                /\ stdout' = Append(stdout,
                       Line("written", PathOf(args.output.val), 0, EmptyResults))
           ELSE /\ stdout' = Append(stdout, Line("json", <<>>, 0, results))
                /\ UNCHANGED written
    /\ exitcode' = SuccessStatus
    /\ pc' = "exited"
    /\ UNCHANGED <<fs, cmdline, args, files, idx, results, stderr, call, ret>>

Next ==
    \/ ParseArgs
    \/ SingleFile
    \/ Discover
    \/ ProcessFilesStep
    \/ ProcessFilesReturn
    \/ Dump

Spec == Init /\ [][Next]_vars

\* ------------------------------------------- list_files called on its own
ListPaths == {DataPath, PathOf(ArgFileA), PathOf(ArgNoDir)}

InitLF ==
    /\ fs \in FileSystems
    /\ call \in [fn : {"list_files"}, path : ListPaths, length : {0}]
    /\ pc = "lf_call"
    /\ cmdline = [usage_error |-> FALSE, file |-> None, data_dir |-> None,
                  output |-> None]
    /\ args = NoArgs
    /\ files = <<>>
    /\ idx = 1
    /\ results = EmptyResults
    /\ stdout = <<>>
    /\ stderr = <<>>
    /\ written = <<>>
    /\ exitcode = -1
    /\ ret = <<>>

\* One call of list_files(call.path); the directory is enumerated in any
\* order.  Two calls are made on the same file system.
ListFilesCall ==
    /\ pc = "lf_call"
    /\ Len(ret) < 2
    /\ \E order \in Orders(iterdir(fs, call.path)) :
          ret' = Append(ret, list_files(fs, call.path, order))
    /\ UNCHANGED <<fs, cmdline, args, pc, files, idx, results, stdout, stderr,
                   written, exitcode, call>>

NextLF == ListFilesCall

SpecLF == InitLF /\ [][NextLF]_vars

\* ----------------------------------------- preview_file called on its own
Alphabet == {"a", "\n", " "}
Texts == UNION {[1..k -> Alphabet] : k \in 0..MaxLen}
PreviewPath == <<"f">>

PreviewNodes ==
    {FileNode("ok", t) : t \in Texts}
    \cup {FileNode("denied", <<>>), FileNode("undecodable", <<>>), DirNode,
          SocketNode}

InitPV ==
    /\ fs \in {[p \in {Dot, PreviewPath} |-> IF p = Dot THEN DirNode ELSE n] :
                  n \in PreviewNodes}
    /\ call \in [fn : {"preview_file"}, path : {PreviewPath},
                 length : (-1)..(MaxLen + 1)]
    /\ pc = "pv_call"
    /\ cmdline = [usage_error |-> FALSE, file |-> None, data_dir |-> None,
                  output |-> None]
    /\ args = NoArgs
    /\ files = <<>>
    /\ idx = 1
    /\ results = EmptyResults
    /\ stdout = <<>>
    /\ stderr = <<>>
    /\ written = <<>>
    /\ exitcode = -1
    /\ ret = <<>>

\* One call of preview_file(call.path, call.length).
PreviewCall ==
    /\ pc = "pv_call"
    /\ ret' = <<preview_file(fs, call.path, call.length)>>
    /\ pc' = "pv_done"
    /\ UNCHANGED <<fs, cmdline, args, files, idx, results, stdout, stderr,
                   written, exitcode, call>>

NextPV == PreviewCall

SpecPV == InitPV /\ [][NextPV]_vars

\* ---------------------------------------- process_files called on its own
ProcessPaths == {PathOf(ArgFileA), PathOf(ArgFileB), DataPath, PathOf(ArgNoDir)}
PathSeqs == UNION {[1..k -> ProcessPaths] : k \in 0..MaxPaths}
ProcessDirs == UNION {[S -> EntryNodes] : S \in SUBSET {<<"a">>, <<"B">>}}

InitPF ==
    /\ fs \in {MkFs(TRUE, e) : e \in ProcessDirs}
    /\ files \in PathSeqs
    /\ call = [fn |-> "process_files", path |-> <<>>, length |-> 0]
    /\ pc = "process_files"
    /\ cmdline = [usage_error |-> FALSE, file |-> None, data_dir |-> None,
                  output |-> None]
    /\ args = NoArgs
    /\ idx = 1
    /\ results = EmptyResults
    /\ stdout = <<>>
    /\ stderr = <<>>
    /\ written = <<>>
    /\ exitcode = -1
    /\ ret = <<>>

NextPF ==
    \/ ProcessFilesStep
    \/ ProcessFilesReturn

SpecPF == InitPF /\ [][NextPF]_vars

\* ------------------------------------------------------------------ claims
Records == results.files
Exited == pc = "exited"
Accepted == ~cmdline.usage_error
HasLine(tag) == \E i \in 1..Len(stdout) : stdout[i].tag = tag
ReadFails(p) == read_text(fs, p).exc # "none"

\* The ResultSet documents the run has emitted, printed or written.
Emitted ==
    {stdout[i].doc : i \in {j \in 1..Len(stdout) : stdout[j].tag = "json"}}
    \cup {written[i].text.value : i \in 1..Len(written)}

\* C1: called on a directory, list_files returns without an exception
\* exactly the regular files directly contained in it, each once, none
\* missing, nothing that is not a regular file, in strictly ascending order
\* of file name; and two calls on the same file system, whatever order the
\* directory is enumerated in, return the same sequence.
C1_ListFilesExactSortedDeterministic ==
    (pc = "lf_call" /\ is_dir(fs, call.path)) =>
        /\ \A c \in 1..Len(ret) :
              LET v == ret[c].val
              IN  /\ ret[c].exc = "none"
                  /\ {v[i] : i \in 1..Len(v)}
                        = {q \in DOMAIN fs : /\ Parent(q) = call.path
                                             /\ q # call.path
                                             /\ fs[q].kind = "file"}
                  /\ \A i, j \in 1..Len(v) :
                        i < j => StrLess(Name(v[i]), Name(v[j]))
        /\ \A c, d \in 1..Len(ret) : ret[c] = ret[d]

\* Two calls made on a directory holding at least two regular files and an
\* entry that is not a regular file.
C1_Witness ==
    /\ pc = "lf_call"
    /\ is_dir(fs, call.path)
    /\ Len(ret) = 2
    /\ Len(ret[1].val) >= 2
    /\ \E q \in iterdir(fs, call.path) : fs[q].kind # "file"

\* C2: for a readable text file of decoded length L and a bound N >= 0,
\* preview_file returns the first min(N, L) characters of the content with
\* each newline replaced by one space: exactly N characters when L >= N,
\* the whole collapsed content when L < N, and never a newline.
C2_PreviewIsCollapsedPrefix ==
    (pc = "pv_done" /\ call.length >= 0 /\ ~ReadFails(call.path)) =>
        LET text == fs[call.path].text
            L == Len(text)
            N == call.length
            pv == ret[1].val
        IN  /\ ret[1].exc = "none"
            /\ L >= N => Len(pv) = N
            /\ L < N => Len(pv) = L
            /\ \A i \in 1..Len(pv) :
                  /\ pv[i] # "\n"
                  /\ pv[i] = IF text[i] = "\n" THEN " " ELSE text[i]

\* A preview that truncates a longer content and collapses a newline.
C2_Witness ==
    /\ pc = "pv_done"
    /\ ~ReadFails(call.path)
    /\ call.length >= 1
    /\ Len(fs[call.path].text) > call.length
    /\ \E i \in 1..call.length : fs[call.path].text[i] = "\n"
    /\ Len(ret[1].val) = call.length

\* C3: in every FileRecord of every run the preview is at most
\* DefaultLength characters long, also when reading the file failed.
C3_PreviewWithinBound ==
    \A i \in 1..Len(Records) : Len(Records[i].preview) <= DefaultLength

\* The preview preview_file gives for a path whose reading fails.
IsErrorPreview(pv) ==
    /\ Len(pv) > Len(ErrPrefix) + Len(ErrSuffix)
    /\ SubSeq(pv, 1, Len(ErrPrefix)) = ErrPrefix
    /\ SubSeq(pv, Len(pv), Len(pv)) = ErrSuffix
    /\ Contains(pv, Marker)

\* The paths the run has been asked to process so far.
Processing ==
    IF HasLine("processing_single") THEN <<PathOf(args.file.val)>>
    ELSE IF HasLine("discovered") THEN files
    ELSE <<>>

\* C4: no exception leaves preview_file: every path the run processes gets
\* its record, the record of a path whose reading or decoding fails has a
\* preview of the form <error reading file: ...>, and a run that has begun
\* processing goes on to its end and ends with exit status 0.
C4_PreviewNeverRaises ==
    /\ \A i \in 1..Len(Records) :
          ReadFails(Records[i].file) => IsErrorPreview(Records[i].preview)
    /\ Processing # <<>> =>
          /\ exitcode \in {-1, SuccessStatus}
          /\ pc \in {"dump", "exited"} =>
                /\ Len(Records) = Len(Processing)
                /\ \A i \in 1..Len(Records) : Records[i].file = Processing[i]

\* A finished run that processed an undecodable file and a path that cannot
\* be opened.
C4_Witness ==
    /\ Exited
    /\ exitcode = SuccessStatus
    /\ \E i \in 1..Len(Records) :
          read_text(fs, Records[i].file).exc = "UnicodeDecodeError"
    /\ \E i \in 1..Len(Records) :
          read_text(fs, Records[i].file).exc = "PermissionError"

\* The record process_file is to build for path p, field by field.
IsRecordOf(rec, p) ==
    /\ DOMAIN rec = {"file", "preview", "entities", "relations", "provenance"}
    /\ rec.file = p
    /\ rec.entities = <<>>
    /\ rec.relations = <<>>
    /\ DOMAIN rec.provenance = {"source"}
    /\ rec.provenance.source = p
    /\ IF ReadFails(p) THEN IsErrorPreview(rec.preview)
       ELSE rec.preview = replace_newlines(Slice(fs[p].text, DefaultLength))

\* C5: process_files returns, for every input sequence, one record per
\* input path, the i-th being the record of the i-th path: order kept,
\* duplicates kept; a path whose preview fails still has its record with
\* every field but preview as usual, and the paths after it are processed;
\* the loop has handled exactly the first idx - 1 paths at any time and is
\* never left by an exception.
C5_ProcessFilesMapsInOrder ==
    (call.fn = "process_files") =>
        /\ pc \in {"process_files", "dump"}
        /\ Len(Records) = idx - 1
        /\ pc = "dump" => Len(Records) = Len(files)
        /\ \A i \in 1..Len(Records) : IsRecordOf(Records[i], files[i])

\* process_files has returned for two equal paths whose reading fails.
C5_Witness ==
    /\ call.fn = "process_files"
    /\ pc = "dump"
    /\ Len(files) = 2
    /\ files[1] = files[2]
    /\ ReadFails(files[1])
    /\ Len(Records) = 2

\* C6: every FileRecord of every ResultSet, held or emitted, in directory
\* mode and in single-file mode, with a good or a failed preview, has
\* exactly the keys file, preview, entities, relations and provenance, empty
\* entities and relations, and provenance.source equal to its file, which
\* is the path it was built for.
C6_RecordSchema ==
    /\ \A i \in 1..Len(Records) :
          /\ i <= Len(Processing)
          /\ IsRecordOf(Records[i], Processing[i])
    /\ \A doc \in Emitted : doc = results

\* A finished single-file run whose preview failed, its ResultSet emitted.
C6_Witness ==
    /\ Exited
    /\ HasLine("processing_single")
    /\ Len(Records) = 1
    /\ ReadFails(Records[1].file)
    /\ Records[1].file # Name(Records[1].file)
    /\ Emitted # {}

\* --file names a path that does not exist.
FileMissing ==
    /\ Accepted
    /\ cmdline.file.set
    /\ ~exists(fs, PathOf(cmdline.file.val))

\* What a run that ended on a missing --file shows: status 2, the error
\* line, no ResultSet printed, no output file written.
NotFoundOutcome ==
    /\ exitcode = 2
    /\ HasLine("file_not_found")
    /\ ~HasLine("json")
    /\ written = <<>>
    /\ Emitted = {}

\* C7 as stated: a run on a missing --file prints the error, ends with
\* status 2 and produces no JSON, and status 2 occurs in no other case.
C7_Original ==
    Exited =>
        /\ FileMissing => NotFoundOutcome
        /\ exitcode = 2 => FileMissing

\* C7 amended: a run on a missing --file prints the error, ends with status
\* 2 and produces no JSON; status 2 occurs otherwise only when the argument
\* parser rejects the command line, and then no JSON is produced either.
C7_MissingFileExitsTwo ==
    /\ FileMissing => exitcode \in {-1, 2}
    /\ Exited =>
        /\ FileMissing => NotFoundOutcome
        /\ exitcode = 2 => (FileMissing \/ cmdline.usage_error)
        /\ cmdline.usage_error => (exitcode = 2 /\ Emitted = {} /\ stdout = <<>>)

\* A run on a missing --file with --output given has ended.
C7_Witness ==
    /\ Exited
    /\ FileMissing
    /\ cmdline.output.set
    /\ exitcode = 2

\* Directory mode on a path that does not exist.
DirMissing ==
    /\ Accepted
    /\ ~Truthy(cmdline.file)
    /\ ~exists(fs, PathOf(IF cmdline.data_dir.set THEN cmdline.data_dir.val
                          ELSE ArgDataDefault))

\* C8: when the discovery path does not exist list_files returns the empty
\* sequence, the run reports zero discovered files, goes on, emits a
\* ResultSet with no files and ends with exit status 0.
C8_MissingDirDegrades ==
    DirMissing =>
        /\ exitcode \in {-1, SuccessStatus}
        /\ pc \in {"process_files", "dump", "exited"} =>
              /\ files = <<>>
              /\ \E i \in 1..Len(stdout) :
                    stdout[i].tag = "discovered" /\ stdout[i].count = 0
        /\ Exited => (exitcode = SuccessStatus /\ Emitted = {EmptyResults})

\* A directory-mode run on a missing path has ended, its output written.
C8_Witness ==
    /\ DirMissing
    /\ Exited
    /\ written # <<>>

\* C9: whenever --file is given with an existing path, whatever the string,
\* the run processes that one file: no discovery, one record, its file the
\* given path.
C9_FileGivenMeansSingleFile ==
    (Exited /\ Accepted /\ cmdline.file.set
        /\ exists(fs, PathOf(cmdline.file.val))) =>
        /\ ~HasLine("discovered")
        /\ HasLine("processing_single")
        /\ Len(Records) = 1
        /\ Records[1].file = PathOf(cmdline.file.val)

\* Directory mode on a path that exists and is not a directory.
DirIsNotADirectory ==
    /\ Accepted
    /\ ~Truthy(cmdline.file)
    /\ LET d == PathOf(IF cmdline.data_dir.set THEN cmdline.data_dir.val
                       ELSE ArgDataDefault)
       IN  exists(fs, d) /\ ~is_dir(fs, d)

\* C10: when the discovery path exists and is not a directory the
\* enumeration fails, nothing catches the error, and the run ends
\* abnormally: no file is processed, no ResultSet is emitted, the status is
\* that of an uncaught exception.
C10_NotADirectoryCrashes ==
    DirIsNotADirectory =>
        /\ pc \in {"start", "parsed", "exited"}
        /\ Records = <<>>
        /\ Emitted = {}
        /\ ~HasLine("discovered")
        /\ Exited =>
              /\ exitcode = UncaughtStatus
              /\ stderr = <<"NotADirectoryError">>

\* A run whose --data-dir is a regular file has ended.
C10_Witness ==
    /\ DirIsNotADirectory
    /\ Exited
    /\ is_file(fs, PathOf(cmdline.data_dir.val))

====
